---- MODULE Spec2Model ----
(***************************************************************************)
(* Countdown-timer video generator (timer_generator.py).                   *)
(*                                                                         *)
(* Strings are sequences of one-character strings, so that formatting     *)
(* (f-strings), parsing (int, re.findall, re.match) and os.path helpers    *)
(* are computed character by character, as the Python code does.           *)
(***************************************************************************)
EXTENDS Integers, Sequences, FiniteSets, TLC

VARIABLES
    pc,            \* position of the process / of the call under study
    expression,    \* args.expression (a string), or the input of parse_timer_expression
    timers,        \* the list returned by parse_timer_expression: <<minutes, file name>> pairs
    frames,        \* the paths of the files that exist in the frames folder
    call,          \* the latest Frame Cache Manager call: its arguments and what it rendered
    frame_files,   \* the list returned by the latest load_frame_paths
    prev_call,     \* `call` of the call before the latest one
    audio_args,    \* the arguments of prepare_audio and the lengths (ms) of the files they name
    audio,         \* the lengths (ms) of the segments prepare_audio builds
    args,          \* the parsed command line
    seg,           \* expression mode: the index in `timers` of the current segment
    fs,            \* the video files of the working directory: path -> content
    sounds,        \* the sounds folder: whether it exists, and the files in it
    orch,          \* the current generate_timer_video call
    concat,        \* merge_videos: the list file and how the concatenation went
    removed,       \* the video files deleted so far by merge_videos and by __main__
    log,           \* the lines logged by __main__
    exit_status    \* the exit status of the process, "none" while it runs

parseVars == <<expression, timers>>
frameVars == <<frames, call, frame_files, prev_call>>

audioVars == <<audio_args, audio>>
mainVars == <<args, seg, fs, sounds, orch, concat, removed, log, exit_status>>

vars == <<pc, parseVars, frameVars, audioVars, mainVars>>

-----------------------------------------------------------------------------
(* Bounds of the model *)

MaxExprLen == 6      \* characters of an expression
MaxRepeat == 22      \* largest repeat count x<N> of an enumerated expression
MaxDuration == 3     \* countdown durations 0..MaxDuration seconds
MaxFrameRate == 2    \* frame rates 1..MaxFrameRate (and the default)
MaxAlarm == 2        \* alarm durations 0..MaxAlarm seconds (and the default)
MaxCalls == 2        \* Frame Cache Manager calls in a row
MaxHalfSeconds == 8  \* sound files of up to MaxHalfSeconds * 500 + 1 ms
MaxMinutes == 1      \* single-timer mode: --minutes in 0..MaxMinutes
MaxSeconds == 1      \* single-timer mode: --seconds in 0..MaxSeconds

-----------------------------------------------------------------------------
(* Characters, int() and str() *)

DigitChars == <<"0", "1", "2", "3", "4", "5", "6", "7", "8", "9">>

IsDigit(c) == \E d \in 1..10 : DigitChars[d] = c

DigitVal(c) == (CHOOSE d \in 1..10 : DigitChars[d] = c) - 1

\* int(s) for a non-empty string of decimal digits
RECURSIVE int(_)
int(s) ==
    IF Len(s) = 0 THEN 0
    ELSE int(SubSeq(s, 1, Len(s) - 1)) * 10 + DigitVal(s[Len(s)])

\* str(n), the text an f-string gives for {n}, n >= 0
RECURSIVE str(_)
str(n) ==
    IF n < 10 THEN <<DigitChars[n + 1]>>
    ELSE str(n \div 10) \o <<DigitChars[(n % 10) + 1]>>

\* seq * n for a Python list
ListMul(s, n) ==
    IF n <= 0 THEN <<>>
    ELSE [i \in 1..(Len(s) * n) |-> s[((i - 1) % Len(s)) + 1]]

-----------------------------------------------------------------------------
(* parse_timer_expression *)

\* index of the last character of the run of digits that starts at i
RECURSIVE DigitRunEnd(_, _)
DigitRunEnd(e, i) ==
    IF i + 1 <= Len(e) /\ IsDigit(e[i + 1]) THEN DigitRunEnd(e, i + 1) ELSE i

\* re.findall(r'm(\d+)|x(\d+)', e) from position i: a list of <<minutes, repeat>>
\* group pairs, the group that did not take part being the empty string
RECURSIVE FindAll(_, _)
FindAll(e, i) ==
    IF i > Len(e) THEN <<>>
    ELSE IF e[i] \in {"m", "x"} /\ i + 1 <= Len(e) /\ IsDigit(e[i + 1])
         THEN LET j == DigitRunEnd(e, i + 1)
                  d == SubSeq(e, i + 1, j)
              IN  <<IF e[i] = "m" THEN <<d, <<>>>> ELSE <<<<>>, d>>>>
                  \o FindAll(e, j + 1)
         ELSE FindAll(e, i + 1)

\* a faulty variant: the pending batch is not reset after a repeat marker
ParseStepNoReset(st, match) ==
    LET minutes == match[1]
        repeat  == match[2]
    IN  IF minutes # <<>>
        THEN [st EXCEPT !.repeat_sequence = Append(@, int(minutes))]
        ELSE IF repeat # <<>>
             THEN [st EXCEPT !.repeat_count = int(repeat),
                             !.timers = @ \o ListMul(st.repeat_sequence, int(repeat))]
             ELSE st

\* one iteration of `for minutes, repeat in matches`
ParseStep(st, match) ==
    LET minutes == match[1]
        repeat  == match[2]
    IN  IF minutes # <<>>
        THEN [st EXCEPT !.repeat_sequence = Append(@, int(minutes))]
        ELSE IF repeat # <<>>
             THEN [st EXCEPT !.repeat_count = int(repeat),
                             !.timers = @ \o ListMul(st.repeat_sequence, int(repeat)),
                             !.repeat_sequence = <<>>]
             ELSE st

RECURSIVE ParseLoop(_, _, _)
ParseLoop(matches, i, st) ==
    IF i > Len(matches) THEN st
    ELSE ParseLoop(matches, i + 1, ParseStep(st, matches[i]))

\* the list `timers` of minute values after the loop and the trailing extend
ExpandTimers(e) ==
    LET st == ParseLoop(FindAll(e, 1), 1,
                        [timers |-> <<>>, repeat_sequence |-> <<>>, repeat_count |-> 1])
    IN  st.timers \o st.repeat_sequence

T_ == <<"t", "i", "m", "e", "r", "_">>
Mp4 == <<".", "m", "p", "4">>

\* f"timer_{minutes}m"
BaseName(minutes) == T_ \o str(minutes) \o <<"m">>

\* a faulty variant: the suffix counts repetitions from 1 instead of occurrences from 2
NameStepFromOne(st, minutes) ==
    LET base_name == BaseName(minutes)
    IN  IF base_name \in DOMAIN st.counter
        THEN LET n == st.counter[base_name]
             IN  [counter    |-> [st.counter EXCEPT ![base_name] = n + 1],
                  file_names |-> Append(st.file_names,
                                        base_name \o <<"_">> \o str(n) \o Mp4)]
        ELSE [counter    |-> [b \in DOMAIN st.counter \cup {base_name} |->
                                 IF b = base_name THEN 1 ELSE st.counter[b]],
              file_names |-> Append(st.file_names, base_name \o Mp4)]

\* one iteration of `for minutes in timers`
NameStep(st, minutes) ==
    LET base_name == BaseName(minutes)
    IN  IF base_name \in DOMAIN st.counter
        THEN LET n == st.counter[base_name] + 1
             IN  [counter    |-> [st.counter EXCEPT ![base_name] = n],
                  file_names |-> Append(st.file_names,
                                        base_name \o <<"_">> \o str(n) \o Mp4)]
        ELSE [counter    |-> [b \in DOMAIN st.counter \cup {base_name} |->
                                 IF b = base_name THEN 1 ELSE st.counter[b]],
              file_names |-> Append(st.file_names, base_name \o Mp4)]

RECURSIVE NameLoop(_, _, _)
NameLoop(ts, i, st) ==
    IF i > Len(ts) THEN st
    ELSE NameLoop(ts, i + 1, NameStep(st, ts[i]))

\* list(zip(timers, file_names))
Zip(a, b) ==
    LET n == IF Len(a) < Len(b) THEN Len(a) ELSE Len(b)
    IN  [i \in 1..n |-> <<a[i], b[i]>>]

\* the two columns of the returned list
Durations(ts) == [i \in 1..Len(ts) |-> ts[i][1]]
FileNames(ts) == [i \in 1..Len(ts) |-> ts[i][2]]

parse_timer_expression(e) ==
    LET ts == ExpandTimers(e)
        st == NameLoop(ts, 1, [counter |-> <<>>, file_names |-> <<>>])
    IN  Zip(ts, st.file_names)

-----------------------------------------------------------------------------
(* Frame Cache Manager: check_or_generate_frames, generate_frame, load_frame_paths *)

DefaultFrameRate == 24
DefaultAlarmDuration == 5

FramesFolder == <<"t", "i", "m", "e", "r", "_", "f", "r", "a", "m", "e", "s">>

\* os.path.join(folder, name) for a relative name
PathJoin(folder, name) ==
    IF folder = <<>> THEN name
    ELSE IF folder[Len(folder)] = "/" THEN folder \o name
    ELSE folder \o <<"/">> \o name

\* the text an f-string gives for {n:02}, n >= 0
Pad2(n) == IF n < 10 THEN <<"0">> \o str(n) ELSE str(n)

Frame_ == <<"f", "r", "a", "m", "e", "_">>
Png == <<".", "p", "n", "g">>

\* f"frame_{s//60:02}{s%60:02}.png", the name whose existence is checked
CheckedFrameName(s) == Frame_ \o Pad2(s \div 60) \o Pad2(s % 60) \o Png

\* "frame_0000.png"
AlarmFrameName == <<"f", "r", "a", "m", "e", "_", "0", "0", "0", "0", ".", "p", "n", "g">>

\* a faulty variant: the minutes are written with their last two digits only
generate_frame_two_digits(seconds, output_folder, is_alarm) ==
    LET mm == (seconds \div 60) % 100
        ss == seconds % 60
        filename == IF ~is_alarm THEN Frame_ \o Pad2(mm) \o Pad2(ss) \o Png
                    ELSE AlarmFrameName
    IN  PathJoin(output_folder, filename)

\* the file generate_frame writes
generate_frame(seconds, output_folder, is_alarm) ==
    LET mm == seconds \div 60
        ss == seconds % 60
        filename == IF ~is_alarm THEN Frame_ \o Pad2(mm) \o Pad2(ss) \o Png
                    ELSE AlarmFrameName
    IN  PathJoin(output_folder, filename)

\* list(range(duration, 0, -1))
RangeDown(duration) == [i \in 1..duration |-> duration + 1 - i]

\* a faulty variant: every required key is regenerated, cached or not
MissingKeysAlways(duration, frames_folder, files, background_video) ==
    LET required_seconds == RangeDown(duration)
        alarm_path == PathJoin(frames_folder, AlarmFrameName)
    IN  IF alarm_path \notin files THEN Append(required_seconds, 0) ELSE required_seconds

\* a faulty variant: an attached background video does not force regeneration
MissingKeysIgnoringVideo(duration, frames_folder, files, background_video) ==
    LET required_seconds == RangeDown(duration)
        IsMissing(s) == PathJoin(frames_folder, CheckedFrameName(s)) \notin files
        missing == SelectSeq(required_seconds, IsMissing)
        alarm_path == PathJoin(frames_folder, AlarmFrameName)
    IN  IF alarm_path \notin files THEN Append(missing, 0) ELSE missing

\* the list `missing` of check_or_generate_frames; `files` are the existing paths
MissingKeys(duration, frames_folder, files, background_video) ==
    LET required_seconds == RangeDown(duration)
        IsMissing(s) == \/ PathJoin(frames_folder, CheckedFrameName(s)) \notin files
                        \/ background_video
        missing == SelectSeq(required_seconds, IsMissing)
        alarm_path == PathJoin(frames_folder, AlarmFrameName)
    IN  IF alarm_path \notin files THEN Append(missing, 0) ELSE missing

\* the paths written by `for s in missing: generate_frame(...)`, in order
RenderedPaths(missing, frames_folder) ==
    [i \in 1..Len(missing) |-> generate_frame(missing[i], frames_folder, missing[i] = 0)]

Range(s) == {s[i] : i \in 1..Len(s)}

\* a faulty variant: the countdown runs upwards
load_frame_paths_ascending(duration, frames_folder, frame_rate, alarm_duration) ==
    LET countdown == [i \in 1..(duration * frame_rate) |->
                        PathJoin(frames_folder,
                                 Frame_ \o Pad2((((i - 1) \div frame_rate) + 1) \div 60)
                                        \o Pad2((((i - 1) \div frame_rate) + 1) % 60) \o Png)]
        alarm_path == PathJoin(frames_folder, AlarmFrameName)
        alarm_frames == [i \in 1..(frame_rate * alarm_duration) |-> alarm_path]
    IN  countdown \o alarm_frames

\* the path load_frame_paths lists for the second s
ListedFramePath(s, frames_folder) ==
    LET mm == s \div 60
        ss == s % 60
    IN  PathJoin(frames_folder, Frame_ \o Pad2(mm) \o Pad2(ss) \o Png)

\* countdown.extend([path] * frame_rate) for s in range(duration, 0, -1), from s down
RECURSIVE CountdownPaths(_, _, _)
CountdownPaths(s, frames_folder, frame_rate) ==
    IF s <= 0 THEN <<>>
    ELSE LET path == ListedFramePath(s, frames_folder)
         IN  ListMul(<<path>>, frame_rate) \o CountdownPaths(s - 1, frames_folder, frame_rate)

load_frame_paths(duration, frames_folder, frame_rate, alarm_duration) ==
    LET countdown == CountdownPaths(duration, frames_folder, frame_rate)
        alarm_path == PathJoin(frames_folder, AlarmFrameName)
        alarm_frames == ListMul(ListMul(<<alarm_path>>, frame_rate), alarm_duration)
    IN  countdown \o alarm_frames

-----------------------------------------------------------------------------
(* Segment Reuse Resolver: reuse_video *)

\* p.rfind(c): the last index of c in p, 0 when there is none
RFind(p, c) ==
    LET hits == {i \in 1..Len(p) : p[i] = c}
    IN  IF hits = {} THEN 0 ELSE CHOOSE i \in hits : \A j \in hits : j <= i

\* os.path.basename
Basename(p) == SubSeq(p, RFind(p, "/") + 1, Len(p))

\* s.rstrip('/')
RECURSIVE RStripSlash(_)
RStripSlash(p) ==
    IF p # <<>> /\ p[Len(p)] = "/" THEN RStripSlash(SubSeq(p, 1, Len(p) - 1)) ELSE p

\* os.path.dirname
Dirname(p) ==
    LET head == SubSeq(p, 1, RFind(p, "/"))
    IN  IF head # <<>> /\ \E i \in 1..Len(head) : head[i] # "/"
        THEN RStripSlash(head) ELSE head

\* os.path.splitext: <<root, ext>>; leading dots of the name start no extension
Splitext(p) ==
    LET sepIndex == RFind(p, "/")
        dotIndex == RFind(p, ".")
    IN  IF /\ dotIndex > sepIndex
           /\ \E k \in (sepIndex + 1)..(dotIndex - 1) : p[k] # "."
        THEN <<SubSeq(p, 1, dotIndex - 1), SubSeq(p, dotIndex, Len(p))>>
        ELSE <<p, <<>>>>

\* `$`: position k is the end of b, or only a final newline follows it
AtEnd(b, k) == k = Len(b) \/ (k = Len(b) - 1 /\ b[Len(b)] = "\n")

\* a faulty variant: the pattern without the optional repetition suffix
MatchTimerNameNoSuffix(b) ==
    LET NoMatch == [matched |-> FALSE, group1 |-> <<>>]
    IN  IF Len(b) >= 8 /\ SubSeq(b, 1, 6) = T_ /\ IsDigit(b[7])
        THEN LET j == DigitRunEnd(b, 7)
             IN  IF j + 1 <= Len(b) /\ b[j + 1] = "m" /\ AtEnd(b, j + 1)
                 THEN [matched |-> TRUE, group1 |-> SubSeq(b, 1, j + 1)]
                 ELSE NoMatch
        ELSE NoMatch

\* re.match(r'(timer_\d+m)(?:_\d+)?$', b): whether it matches, and group(1)
MatchTimerName(b) ==
    LET NoMatch == [matched |-> FALSE, group1 |-> <<>>]
    IN  IF Len(b) >= 8 /\ SubSeq(b, 1, 6) = T_ /\ IsDigit(b[7])
        THEN LET j == DigitRunEnd(b, 7)
             IN  IF j + 1 <= Len(b) /\ b[j + 1] = "m"
                 THEN LET m == [matched |-> TRUE, group1 |-> SubSeq(b, 1, j + 1)]
                      IN  IF AtEnd(b, j + 1) THEN m
                          ELSE IF /\ j + 3 <= Len(b)
                                  /\ b[j + 2] = "_"
                                  /\ IsDigit(b[j + 3])
                                  /\ AtEnd(b, DigitRunEnd(b, j + 3))
                               THEN m
                               ELSE NoMatch
                 ELSE NoMatch
        ELSE NoMatch

\* a faulty variant: the requested name itself is taken for the source of the copy
ReuseSourceSelf(video_path) == [matched |-> TRUE, source_path |-> video_path]

\* lines 112-117: whether the base name matches, and the path of the base version
ReuseSource(video_path) ==
    LET parts == Splitext(Basename(video_path))
        base_name == parts[1]
        ext == parts[2]
        match == MatchTimerName(base_name)
    IN  IF match.matched
        THEN [matched |-> TRUE,
              source_path |-> PathJoin(Dirname(video_path), match.group1 \o ext)]
        ELSE [matched |-> FALSE, source_path |-> <<>>]

\* a faulty variant: copying a file onto itself is not detected
ReuseCaseNoSameFile(video_path, files) ==
    LET r == ReuseSource(video_path)
    IN  IF ~r.matched THEN "no_match"
        ELSE IF r.source_path \notin files THEN "not_found"
        ELSE "copy"

\* what reuse_video does for video_path when `files` exist: "no_match", "not_found"
\* (lines 126-128), "same_file" (shutil.copy raises SameFileError, an OSError, when
\* source and destination are one file: lines 123-125) or "copy" (line 120)
ReuseCase(video_path, files) ==
    LET r == ReuseSource(video_path)
    IN  IF ~r.matched THEN "no_match"
        ELSE IF r.source_path \notin files THEN "not_found"
        ELSE IF r.source_path = video_path THEN "same_file"
        ELSE "copy"

-----------------------------------------------------------------------------
(* prepare_audio; an AudioSegment is modelled by its length in milliseconds *)

\* segment[:stop_ms]
SegSlice(len_ms, stop_ms) == IF stop_ms < len_ms THEN stop_ms ELSE len_ms

\* segment * loops
SegMul(len_ms, loops) == len_ms * loops

\* AudioSegment.silent(duration=ms)
Silent(ms) == ms

\* generate_alarm_sound: a sine tone of `duration` seconds, exported and read back
generate_alarm_sound(duration) == duration * 1000

\* lines 40-51; background_music_path is "none" (None) or names a file of music_ms
BgSegment(duration, background_music_path, music_ms) ==
    IF background_music_path # "none"
    THEN LET bg_ms == music_ms
             required_ms == duration * 1000
         IN  IF bg_ms < required_ms
             THEN LET loops == (required_ms \div bg_ms) + 1
                      looped_bg == SegMul(bg_ms, loops)
                  IN  SegSlice(looped_bg, required_ms)
             ELSE SegSlice(bg_ms, required_ms)
    ELSE Silent(duration * 1000)

\* a faulty variant: the alarm is looped one time too few
AlarmSegmentShortLoop(alarm_duration, alarm_sound_path, alarm_file_ms) ==
    LET alarm_ms == IF alarm_sound_path = "alarm.mp3"
                    THEN generate_alarm_sound(alarm_duration)
                    ELSE alarm_file_ms
        required_alarm_ms == alarm_duration * 1000
        alarm == IF alarm_ms < required_alarm_ms
                 THEN SegMul(alarm_ms, required_alarm_ms \div alarm_ms)
                 ELSE alarm_ms
    IN  SegSlice(alarm, required_alarm_ms)

\* lines 53-62; alarm_sound_path is "alarm.mp3" (the default, for which a tone is
\* generated) or names a file of alarm_file_ms
AlarmSegment(alarm_duration, alarm_sound_path, alarm_file_ms) ==
    LET alarm_ms == IF alarm_sound_path = "alarm.mp3"
                    THEN generate_alarm_sound(alarm_duration)
                    ELSE alarm_file_ms
        required_alarm_ms == alarm_duration * 1000
        alarm == IF alarm_ms < required_alarm_ms
                 THEN LET loops == (required_alarm_ms \div alarm_ms) + 1
                      IN  SegMul(alarm_ms, loops)
                 ELSE alarm_ms
    IN  SegSlice(alarm, required_alarm_ms)

prepare_audio(duration, alarm_duration, alarm_sound_path, alarm_file_ms, background_music_path, music_ms) ==
    LET bg_segment == BgSegment(duration, background_music_path, music_ms)
        alarm == AlarmSegment(alarm_duration, alarm_sound_path, alarm_file_ms)
    IN  [bg_segment |-> bg_segment, alarm |-> alarm, combined_audio |-> bg_segment + alarm]

-----------------------------------------------------------------------------
(* The compiler alone: every expression up to MaxExprLen characters *)

ExprAlphabet == {"m", "x", "0", "2", "a"}

\* the repeat counts of the x<N> tokens of e
RepeatCounts(e) ==
    LET ms == FindAll(e, 1)
    IN  {int(ms[i][2]) : i \in {k \in 1..Len(ms) : ms[k][2] # <<>>}}

Expressions ==
    {e \in UNION {[1..n -> ExprAlphabet] : n \in 0..MaxExprLen} :
        \A n \in RepeatCounts(e) : n <= MaxRepeat}

NoCall == [n |-> 0, duration |-> 0, background_video |-> FALSE, rendered |-> <<>>]

FramesIdle ==
    /\ frames = {}
    /\ call = NoCall
    /\ prev_call = NoCall
    /\ frame_files = <<>>

NoAudio == [bg_segment |-> 0, alarm |-> 0, combined_audio |-> 0]

AudioIdle ==
    /\ audio_args = [duration |-> 0, alarm_duration |-> 0,
                     alarm_sound |-> "alarm.mp3", alarm_file_ms |-> 0,
                     background_music |-> "none", music_ms |-> 0]
    /\ audio = NoAudio

NoOrch == [duration |-> 0, output_video |-> <<>>, trace |-> <<>>, failed |-> "none",
           reused |-> FALSE, copy_failed |-> FALSE, made_sounds |-> FALSE]

NoConcat == [list |-> <<>>, result |-> "none"]

MainIdle ==
    /\ args = [has_expression |-> FALSE, minutes |-> 0, seconds |-> 0,
               outputfile |-> <<>>, alarm |-> "alarm.mp3", backgroundvideo |-> FALSE]
    /\ seg = 0
    /\ fs = <<>>
    /\ sounds = [exists |-> FALSE, files |-> {}]
    /\ orch = NoOrch
    /\ concat = NoConcat
    /\ removed = {}
    /\ log = <<>>
    /\ exit_status = "none"

InitParse ==
    /\ pc = "parse_input"
    /\ expression \in Expressions
    /\ timers = <<>>
    /\ FramesIdle
    /\ AudioIdle
    /\ MainIdle

ParseExpression ==
    /\ pc = "parse_input"
    /\ timers' = parse_timer_expression(expression)
    /\ pc' = "parse_done"
    /\ UNCHANGED <<expression, frameVars, audioVars, mainVars>>

NextParse == ParseExpression

SpecParse == InitParse /\ [][NextParse]_vars

-----------------------------------------------------------------------------
(* load_frame_paths alone: every duration, frame rate and alarm duration *)

Durations_ == (0..MaxDuration) \cup {60, 61}
FrameRates == (1..MaxFrameRate) \cup {DefaultFrameRate}
AlarmDurations == (0..MaxAlarm) \cup {DefaultAlarmDuration}

InitLoad ==
    /\ pc = "load_input"
    /\ call \in [n : {0}, duration : Durations_, frame_rate : FrameRates,
                  alarm_duration : AlarmDurations]
    /\ frame_files = <<>>
    /\ frames = {}
    /\ prev_call = NoCall
    /\ expression = <<>>
    /\ timers = <<>>
    /\ AudioIdle
    /\ MainIdle

LoadFramePaths ==
    /\ pc = "load_input"
    /\ frame_files' = load_frame_paths(call.duration, FramesFolder, call.frame_rate,
                                       call.alarm_duration)
    /\ pc' = "load_done"
    /\ UNCHANGED <<parseVars, frames, call, prev_call, audioVars, mainVars>>

NextLoad == LoadFramePaths

SpecLoad == InitLoad /\ [][NextLoad]_vars

-----------------------------------------------------------------------------
(* The Frame Cache Manager called MaxCalls times in a row on one frames folder *)

\* a frames folder left by earlier runs: any of the assets of the keys 0..MaxDuration
CachedFolders ==
    SUBSET {PathJoin(FramesFolder, CheckedFrameName(s)) : s \in 0..MaxDuration}

InitFrames ==
    /\ pc = "frames"
    /\ frames \in CachedFolders
    /\ call = NoCall
    /\ prev_call = NoCall
    /\ frame_files = <<>>
    /\ expression = <<>>
    /\ timers = <<>>
    /\ AudioIdle
    /\ MainIdle

\* lines 268-269 of generate_timer_video: check_or_generate_frames, then
\* load_frame_paths with the default frame rate and alarm duration
FrameCacheManager(duration, background_video) ==
    /\ pc = "frames"
    /\ call.n < MaxCalls
    /\ LET missing == MissingKeys(duration, FramesFolder, frames, background_video)
           rendered == RenderedPaths(missing, FramesFolder)
       IN  /\ frames' = frames \cup Range(rendered)
           /\ call' = [n |-> call.n + 1, duration |-> duration,
                       background_video |-> background_video, rendered |-> rendered]
    /\ frame_files' = load_frame_paths(duration, FramesFolder, DefaultFrameRate,
                                       DefaultAlarmDuration)
    /\ prev_call' = call
    /\ UNCHANGED <<pc, parseVars, audioVars, mainVars>>

NextFrames ==
    \E duration \in 0..MaxDuration, background_video \in BOOLEAN :
        FrameCacheManager(duration, background_video)

SpecFrames == InitFrames /\ [][NextFrames]_vars

-----------------------------------------------------------------------------
(* prepare_audio alone: every duration, alarm duration and sound-file length *)

\* lengths (ms) of sound files: at least 1 ms, around every half second
SoundLengths ==
    {k * 500 + r : k \in 0..MaxHalfSeconds, r \in {-1, 0, 1}} \ {-1, 0}

InitAudio ==
    /\ pc = "audio_input"
    /\ audio_args \in [duration : 0..MaxDuration, alarm_duration : 0..MaxAlarm,
                        alarm_sound : {"alarm.mp3", "bell.wav"},
                        alarm_file_ms : {0} \cup SoundLengths,
                        background_music : {"none", "music.mp3"},
                        music_ms : {0} \cup SoundLengths]
    \* a file that is read is at least 1 ms long; a file that is not read has no length
    /\ (audio_args.alarm_sound = "alarm.mp3") <=> (audio_args.alarm_file_ms = 0)
    /\ (audio_args.background_music = "none") <=> (audio_args.music_ms = 0)
    /\ audio = NoAudio
    /\ expression = <<>>
    /\ timers = <<>>
    /\ FramesIdle
    /\ MainIdle

PrepareAudio ==
    /\ pc = "audio_input"
    /\ audio' = prepare_audio(audio_args.duration, audio_args.alarm_duration,
                              audio_args.alarm_sound, audio_args.alarm_file_ms,
                              audio_args.background_music, audio_args.music_ms)
    /\ pc' = "audio_done"
    /\ UNCHANGED <<parseVars, frameVars, audio_args, mainVars>>

NextAudio == PrepareAudio

SpecAudio == InitAudio /\ [][NextAudio]_vars

-----------------------------------------------------------------------------
(* The whole program: __main__, generate_timer_video, merge_videos *)

Put(f, k, v) == [x \in DOMAIN f \cup {k} |-> IF x = k THEN v ELSE f[x]]
Del(f, k) == [x \in DOMAIN f \ {k} |-> f[x]]

\* the content of a video file: the countdown it shows and how the file was made
Video(duration, nframes, audio_ms, made) ==
    [duration |-> duration, nframes |-> nframes, audio_ms |-> audio_ms, made |-> made]

TimerMp4 == <<"t", "i", "m", "e", "r", ".", "m", "p", "4">>
Timer0mMp4 == <<"t", "i", "m", "e", "r", "_", "0", "m", ".", "m", "p", "4">>
Timer0m2Mp4 == <<"t", "i", "m", "e", "r", "_", "0", "m", "_", "2", ".", "m", "p", "4">>

\* --outputfile: the default and two names of the timer_<N>m[_<R>] form
OutputFiles == {TimerMp4, Timer0mMp4, Timer0m2Mp4}

\* --expression: "abc", "m0x0", "m0", "m0m0", "m1", "m0x2m1"
MainExpressions ==
    { <<"a", "b", "c">>,
      <<"m", "0", "x", "0">>,
      <<"m", "0">>,
      <<"m", "0", "m", "0">>,
      <<"m", "1">>,
      <<"m", "0", "x", "2", "m", "1">> }

\* video files left in the working directory by earlier runs
LeftOvers ==
    {g \in [OutputFiles -> {"absent", "present"}] : g[Timer0m2Mp4] = "absent"}

BellMs == 1500

InitMain ==
    /\ pc = "main"
    /\ \E has_expression \in BOOLEAN, m \in 0..MaxMinutes, sec \in 0..MaxSeconds,
          out \in OutputFiles, alarm \in {"alarm.mp3", "sounds/bell.wav"},
          bv \in BOOLEAN :
          /\ has_expression => (m = 0 /\ sec = 0)
          /\ args = [has_expression |-> has_expression, minutes |-> m, seconds |-> sec,
                     outputfile |-> out, alarm |-> alarm, backgroundvideo |-> bv]
          /\ IF has_expression THEN expression \in MainExpressions ELSE expression = <<>>
          \* an alarm file kept in the sounds folder exists when the run starts
          /\ IF alarm = "sounds/bell.wav"
             THEN sounds = [exists |-> TRUE, files |-> {"bell.wav"}]
             ELSE sounds = [exists |-> FALSE, files |-> {}]
    /\ \E g \in LeftOvers :
          fs = [f \in {x \in OutputFiles : g[x] = "present"} |->
                  Video(0, DefaultAlarmDuration * DefaultFrameRate,
                        DefaultAlarmDuration * 1000, "earlier")]
    /\ frames \in {{}, {PathJoin(FramesFolder, CheckedFrameName(k)) : k \in 0..MaxSeconds}}
    /\ timers = <<>>
    /\ seg = 0
    /\ orch = NoOrch
    /\ concat = NoConcat
    /\ removed = {}
    /\ log = <<>>
    /\ exit_status = "none"
    /\ call = NoCall
    /\ prev_call = NoCall
    /\ frame_files = <<>>
    /\ AudioIdle

Enter(o, state) == [o EXCEPT !.trace = Append(@, state)]

\* a call generate_timer_video(duration, output_video, ...) begins
CallOrchestrator(duration, output_video) ==
    /\ orch' = [NoOrch EXCEPT !.duration = duration, !.output_video = output_video]
    /\ pc' = "check_reuse"

\* lines 353-361: single-timer mode
MainSingle ==
    /\ pc = "main"
    /\ ~args.has_expression
    /\ CallOrchestrator(args.minutes * 60 + args.seconds, args.outputfile)
    /\ UNCHANGED <<parseVars, frameVars, audioVars, args, seg, fs, sounds, concat,
                   removed, log, exit_status>>

\* a faulty variant: an empty list is not an error
NoTimersNever(ts) == FALSE

\* line 364: `if not timers`
NoTimers(ts) == ts = <<>>

\* lines 368-376: the i-th iteration of `for duration, filename in timers`, or the
\* call of merge_videos after the last one
ForSegment(i, ts) ==
    /\ seg' = i
    /\ IF i <= Len(ts)
       THEN CallOrchestrator(ts[i][1] * 60, ts[i][2])
       ELSE pc' = "merge" /\ orch' = orch

\* lines 362-368: expression mode up to the first segment; sys.exit(1) raises
\* SystemExit, which `except Exception` does not catch
MainExpression ==
    /\ pc = "main"
    /\ args.has_expression
    /\ LET ts == parse_timer_expression(expression)
       IN  /\ timers' = ts
           /\ IF NoTimers(ts)
              THEN /\ log' = Append(log, [level |-> "error", msg |-> "no valid timers"])
                   /\ exit_status' = "1"
                   /\ pc' = "exited"
                   /\ UNCHANGED <<seg, orch>>
              ELSE /\ ForSegment(1, ts)
                   /\ UNCHANGED <<log, exit_status>>
    /\ UNCHANGED <<expression, frameVars, audioVars, args, fs, sounds, concat, removed>>

\* lines 253-254 and 118-122: the base version exists and is copied
ReuseHit ==
    /\ pc = "check_reuse"
    /\ ReuseCase(orch.output_video, DOMAIN fs) = "copy"
    /\ fs' = Put(fs, orch.output_video, fs[ReuseSource(orch.output_video).source_path])
    /\ orch' = [Enter(orch, "CheckReuse") EXCEPT !.reused = TRUE]
    /\ log' = Append(log, [level |-> "info", msg |-> "reused video"])
    /\ pc' = "returned"
    /\ UNCHANGED <<parseVars, frameVars, audioVars, args, seg, sounds, concat, removed,
                   exit_status>>

\* a faulty variant: a failure of shutil.copy is not caught and ends the call
ReuseMissRaises ==
    /\ pc = "check_reuse"
    /\ LET case == ReuseCase(orch.output_video, DOMAIN fs)
       IN  /\ orch' = [Enter(orch, "CheckReuse") EXCEPT !.copy_failed = case = "copy"]
           /\ log' = IF case = "not_found"
                     THEN Append(log, [level |-> "info", msg |-> "base video not found"])
                     ELSE log
           /\ pc' = IF case \in {"copy", "same_file"} THEN "except" ELSE "setup"
    /\ UNCHANGED <<parseVars, frameVars, audioVars, args, seg, fs, sounds, concat,
                   removed, exit_status>>

\* lines 253 and 112-128: no match, no base version, or shutil.copy raises OSError
ReuseMiss ==
    /\ pc = "check_reuse"
    /\ orch' = [Enter(orch, "CheckReuse") EXCEPT
                   !.copy_failed = ReuseCase(orch.output_video, DOMAIN fs) = "copy"]
    /\ log' = LET case == ReuseCase(orch.output_video, DOMAIN fs)
               IN  IF case \in {"copy", "same_file"}
                   THEN Append(log, [level |-> "error", msg |-> "failed to copy video"])
                   ELSE IF case = "not_found"
                   THEN Append(log, [level |-> "info", msg |-> "base video not found"])
                   ELSE log
    /\ pc' = "setup"
    /\ UNCHANGED <<parseVars, frameVars, audioVars, args, seg, fs, sounds, concat,
                   removed, exit_status>>

\* lines 256-266: os.makedirs(sound_folder, exist_ok=True) and the font
MakeSoundFolder ==
    /\ pc = "setup"
    /\ sounds' = [sounds EXCEPT !.exists = TRUE]
    /\ orch' = [orch EXCEPT !.made_sounds = ~sounds.exists]
    /\ pc' = "prepare_frames"
    /\ UNCHANGED <<parseVars, frameVars, audioVars, args, seg, fs, concat, removed, log,
                   exit_status>>

\* a faulty variant: the audio is prepared right after the frames, and the visual
\* track is never composed
PrepareFramesOkThenAudio ==
    /\ pc = "prepare_frames"
    /\ LET missing == MissingKeys(orch.duration, FramesFolder, frames,
                                  args.backgroundvideo)
       IN  frames' = frames \cup Range(RenderedPaths(missing, FramesFolder))
    /\ orch' = Enter(orch, "PrepareFrames")
    /\ pc' = "prepare_audio"
    /\ UNCHANGED <<parseVars, call, frame_files, prev_call, audioVars,
                   args, seg, fs, sounds, concat, removed, log, exit_status>>

\* lines 268-269
PrepareFramesOk ==
    /\ pc = "prepare_frames"
    /\ LET missing == MissingKeys(orch.duration, FramesFolder, frames,
                                  args.backgroundvideo)
       IN  frames' = frames \cup Range(RenderedPaths(missing, FramesFolder))
    /\ orch' = Enter(orch, "PrepareFrames")
    /\ pc' = "compose"
    /\ UNCHANGED <<parseVars, call, frame_files, prev_call, audioVars,
                   args, seg, fs, sounds, concat, removed, log, exit_status>>

\* line 150 raises at the (k+1)-th missing frame
PrepareFramesFail ==
    /\ pc = "prepare_frames"
    /\ LET missing == MissingKeys(orch.duration, FramesFolder, frames,
                                  args.backgroundvideo)
       IN  \E k \in 0..(Len(missing) - 1) :
              frames' = frames \cup Range(RenderedPaths(SubSeq(missing, 1, k), FramesFolder))
    /\ orch' = [Enter(orch, "PrepareFrames") EXCEPT !.failed = "PrepareFrames"]
    /\ pc' = "except"
    /\ UNCHANGED <<parseVars, call, frame_files, prev_call, audioVars,
                   args, seg, fs, sounds, concat, removed, log, exit_status>>

\* lines 270-276
ComposeOk ==
    /\ pc = "compose"
    /\ orch' = Enter(orch, "Compose")
    /\ pc' = "prepare_audio"
    /\ UNCHANGED <<parseVars, frameVars, audioVars, args, seg, fs, sounds, concat,
                   removed, log, exit_status>>

\* a call of lines 270-276 raises
ComposeFail ==
    /\ pc = "compose"
    /\ orch' = [Enter(orch, "Compose") EXCEPT !.failed = "Compose"]
    /\ pc' = "except"
    /\ UNCHANGED <<parseVars, frameVars, audioVars, args, seg, fs, sounds, concat,
                   removed, log, exit_status>>

\* line 278; an alarm file in the sounds folder must still be there to be read
PrepareAudioOk ==
    /\ pc = "prepare_audio"
    /\ args.alarm = "sounds/bell.wav" => "bell.wav" \in sounds.files
    /\ sounds' = [exists |-> TRUE,
                  files |-> sounds.files \cup {"final_audio_with_alarm.wav"} \cup
                            (IF args.alarm = "alarm.mp3" THEN {"alarm_sound.wav"} ELSE {})]
    /\ orch' = Enter(orch, "PrepareAudio")
    /\ pc' = "encode"
    /\ UNCHANGED <<parseVars, frameVars, audioVars, args, seg, fs, concat, removed, log,
                   exit_status>>

\* a call of prepare_audio raises
PrepareAudioFail ==
    /\ pc = "prepare_audio"
    /\ orch' = [Enter(orch, "PrepareAudio") EXCEPT !.failed = "PrepareAudio"]
    /\ pc' = "except"
    /\ UNCHANGED <<parseVars, frameVars, audioVars, args, seg, fs, sounds, concat,
                   removed, log, exit_status>>

\* lines 279-280
EncodeOk ==
    /\ pc = "encode"
    /\ LET frame_list == load_frame_paths(orch.duration, FramesFolder, DefaultFrameRate,
                                          DefaultAlarmDuration)
           track == prepare_audio(orch.duration, DefaultAlarmDuration, args.alarm,
                                  BellMs, "none", 0)
       IN  fs' = Put(fs, orch.output_video,
                     Video(orch.duration, Len(frame_list), track.combined_audio, "render"))
    /\ orch' = Enter(orch, "Encode")
    /\ pc' = "cleanup"
    /\ UNCHANGED <<parseVars, frameVars, audioVars, args, seg, sounds, concat, removed,
                   log, exit_status>>

\* write_videofile raises
EncodeFail ==
    /\ pc = "encode"
    /\ orch' = [Enter(orch, "Encode") EXCEPT !.failed = "Encode"]
    /\ pc' = "except"
    /\ UNCHANGED <<parseVars, frameVars, audioVars, args, seg, fs, sounds, concat,
                   removed, log, exit_status>>

\* a faulty variant: the frames folder is removed together with the sounds folder
CleanupWithFrames ==
    /\ pc = "cleanup"
    /\ sounds' = [exists |-> FALSE, files |-> {}]
    /\ frames' = {}
    /\ orch' = Enter(orch, "Cleanup")
    /\ pc' = "returned"
    /\ UNCHANGED <<parseVars, call, frame_files, prev_call, audioVars, args, seg, fs,
                   concat, removed, log, exit_status>>

\* line 281: shutil.rmtree(sound_folder, ignore_errors=True)
Cleanup ==
    /\ pc = "cleanup"
    /\ sounds' = [exists |-> FALSE, files |-> {}]
    /\ orch' = Enter(orch, "Cleanup")
    /\ pc' = "returned"
    /\ UNCHANGED <<parseVars, frameVars, audioVars, args, seg, fs, concat, removed, log,
                   exit_status>>

\* the exit status of a run that reaches the end of the script
ExitAtEnd == "0"

\* generate_timer_video has returned: line 361, or the next iteration of line 368
Return ==
    /\ pc = "returned"
    /\ IF ~args.has_expression
       THEN /\ log' = Append(log, [level |-> "info", msg |-> "generated video"])
            /\ exit_status' = ExitAtEnd
            /\ pc' = "exited"
            /\ UNCHANGED <<seg, orch>>
       ELSE /\ ForSegment(seg + 1, timers)
            /\ UNCHANGED <<log, exit_status>>
    /\ UNCHANGED <<parseVars, frameVars, audioVars, args, fs, sounds, concat, removed>>

\* lines 321-328 of merge_videos: the list file, and the old output file removed
MergeList ==
    /\ pc = "merge"
    /\ concat' = [list |-> FileNames(timers), result |-> "none"]
    /\ IF args.outputfile \in DOMAIN fs
       THEN /\ fs' = Del(fs, args.outputfile)
            /\ removed' = removed \cup {args.outputfile}
       ELSE UNCHANGED <<fs, removed>>
    /\ pc' = "concat"
    /\ UNCHANGED <<parseVars, frameVars, audioVars, args, seg, sounds, orch, log,
                   exit_status>>

\* the sum of the durations of the listed files
RECURSIVE TotalDuration(_, _)
TotalDuration(list, files) ==
    IF list = <<>> THEN 0
    ELSE files[Head(list)].duration + TotalDuration(Tail(list), files)

\* lines 330-334: ffmpeg concatenates; it cannot when a listed file is missing
ConcatOk ==
    /\ pc = "concat"
    /\ concat.list # <<>>
    /\ \A i \in 1..Len(concat.list) : concat.list[i] \in DOMAIN fs
    /\ fs' = Put(fs, args.outputfile,
                 Video(TotalDuration(concat.list, fs), 0, 0, "concat"))
    /\ concat' = [concat EXCEPT !.result = "ok"]
    /\ seg' = 1
    /\ pc' = "remove"
    /\ UNCHANGED <<parseVars, frameVars, audioVars, args, sounds, orch, removed, log,
                   exit_status>>

\* line 334: subprocess.run(check=True) raises CalledProcessError
ConcatFail ==
    /\ pc = "concat"
    /\ concat' = [concat EXCEPT !.result = "failed"]
    /\ pc' = "except"
    /\ UNCHANGED <<parseVars, frameVars, audioVars, args, seg, fs, sounds, orch, removed,
                   log, exit_status>>

\* lines 377-378: one iteration of `for filename in timers_filenames: os.remove`
RemoveSegment ==
    /\ pc = "remove"
    /\ seg <= Len(timers)
    /\ IF timers[seg][2] \in DOMAIN fs
       THEN /\ fs' = Del(fs, timers[seg][2])
            /\ removed' = removed \cup {timers[seg][2]}
            /\ seg' = seg + 1
            /\ pc' = pc
       ELSE /\ pc' = "except"
            /\ UNCHANGED <<fs, removed, seg>>
    /\ UNCHANGED <<parseVars, frameVars, audioVars, args, sounds, orch, concat, log,
                   exit_status>>

\* line 379, and the end of the script
Finish ==
    /\ pc = "remove"
    /\ seg > Len(timers)
    /\ log' = Append(log, [level |-> "info", msg |-> "generated video"])
    /\ exit_status' = ExitAtEnd
    /\ pc' = "exited"
    /\ UNCHANGED <<parseVars, frameVars, audioVars, args, seg, fs, sounds, orch, concat,
                   removed>>

\* lines 380-381: the exception is logged, and the script ends
ExceptHandler ==
    /\ pc = "except"
    /\ log' = Append(log, [level |-> "error", msg |-> "error generating video"])
    /\ exit_status' = ExitAtEnd
    /\ pc' = "exited"
    /\ UNCHANGED <<parseVars, frameVars, audioVars, args, seg, fs, sounds, orch, concat,
                   removed>>

Next ==
    \/ MainSingle
    \/ MainExpression
    \/ ReuseHit
    \/ ReuseMiss
    \/ MakeSoundFolder
    \/ PrepareFramesOk
    \/ PrepareFramesFail
    \/ ComposeOk
    \/ ComposeFail
    \/ PrepareAudioOk
    \/ PrepareAudioFail
    \/ EncodeOk
    \/ EncodeFail
    \/ Cleanup
    \/ Return
    \/ MergeList
    \/ ConcatOk
    \/ ConcatFail
    \/ RemoveSegment
    \/ Finish
    \/ ExceptHandler

Spec == InitMain /\ [][Next]_vars

-----------------------------------------------------------------------------
(* Properties of the compiler *)

\* the tokens of an expression, in order: [kind |-> "m" or "x", n |-> its number]
Tokens(e) ==
    LET ms == FindAll(e, 1)
    IN  [i \in 1..Len(ms) |->
            IF ms[i][1] # <<>> THEN [kind |-> "m", n |-> int(ms[i][1])]
                               ELSE [kind |-> "x", n |-> int(ms[i][2])]]

MarkerPositions(toks) == {k \in 1..Len(toks) : toks[k].kind = "x"}

Least(S) == CHOOSE k \in S : \A j \in S : k <= j

\* batch after batch: the tokens before the first marker, N times, then the rest
RECURSIVE BatchExpansion(_)
BatchExpansion(toks) ==
    IF MarkerPositions(toks) = {}
    THEN [i \in 1..Len(toks) |-> toks[i].n]
    ELSE LET k == Least(MarkerPositions(toks))
             N == toks[k].n
         IN  [i \in 1..((k - 1) * N) |-> toks[((i - 1) % (k - 1)) + 1].n]
             \o BatchExpansion(SubSeq(toks, k + 1, Len(toks)))

\* how many times the minute token at position i appears after expansion
Multiplicity(toks, i) ==
    LET later == {k \in MarkerPositions(toks) : k > i}
    IN  IF later = {} THEN 1 ELSE toks[Least(later)].n

RECURSIVE SumMultiplicity(_, _)
SumMultiplicity(toks, i) ==
    IF i > Len(toks) THEN 0
    ELSE (IF toks[i].kind = "m" THEN Multiplicity(toks, i) ELSE 0)
         + SumMultiplicity(toks, i + 1)

\* C1: the durations returned by parse_timer_expression are, batch after batch,
\* the minute tokens before each x<N> marker repeated exactly N times, followed by
\* the minute tokens after the last marker once; the length of the result is the
\* number of minute tokens after this expansion.
C1_BatchExpansion ==
    pc = "parse_done" =>
        /\ Durations(timers) = BatchExpansion(Tokens(expression))
        /\ Len(timers) = SumMultiplicity(Tokens(expression), 1)

\* "m0x2m2": a batch repeated twice, then a trailing minute token appended once
C1_Witness ==
    /\ pc = "parse_done"
    /\ expression = <<"m", "0", "x", "2", "m", "2">>
    /\ Durations(timers) = <<0, 0, 2>>

\* the number of occurrences of the minute value of entry i among entries 1..i
Occurrence(ts, i) == Cardinality({j \in 1..i : ts[j][1] = ts[i][1]})

\* C2: the first occurrence of a minute value M is named timer_<M>m.mp4, its k-th
\* occurrence (k >= 2) in the whole expanded list timer_<M>m_<k>.mp4, and the
\* returned file names are pairwise distinct.
C2_OccurrenceNames ==
    pc = "parse_done" =>
        /\ \A i \in 1..Len(timers) :
              LET M == timers[i][1]
                  k == Occurrence(timers, i)
              IN  timers[i][2] =
                    IF k = 1
                    THEN <<"t", "i", "m", "e", "r", "_">> \o str(M) \o <<"m", ".", "m", "p", "4">>
                    ELSE <<"t", "i", "m", "e", "r", "_">> \o str(M) \o <<"m", "_">>
                         \o str(k) \o <<".", "m", "p", "4">>
        /\ \A i, j \in 1..Len(timers) : i # j => timers[i][2] # timers[j][2]

\* "m0m2x2": both minute values occur twice, in two copies of the batch
C2_Witness ==
    /\ pc = "parse_done"
    /\ expression = <<"m", "0", "m", "2", "x", "2">>
    /\ FileNames(timers) =
         << <<"t", "i", "m", "e", "r", "_", "0", "m", ".", "m", "p", "4">>,
            <<"t", "i", "m", "e", "r", "_", "2", "m", ".", "m", "p", "4">>,
            <<"t", "i", "m", "e", "r", "_", "0", "m", "_", "2", ".", "m", "p", "4">>,
            <<"t", "i", "m", "e", "r", "_", "2", "m", "_", "2", ".", "m", "p", "4">> >>


-----------------------------------------------------------------------------
(* Properties of the Frame Cache Manager *)

\* the asset of second s: the file the renderer writes for the key s
AssetPath(s) == generate_frame(s, FramesFolder, s = 0)

\* C4: load_frame_paths returns duration*frameRate + alarmDuration*frameRate paths:
\* for each second from duration down to 1 its asset path frameRate times, then the
\* alarm asset path frameRate*alarmDuration times (only the alarm for duration 0).
C4_FrameSequence ==
    pc = "load_done" =>
        LET d  == call.duration
            fr == call.frame_rate
            a  == call.alarm_duration
        IN  /\ Len(frame_files) = d * fr + a * fr
            /\ \A i \in 1..Len(frame_files) :
                  frame_files[i] = IF i <= d * fr THEN AssetPath(d - ((i - 1) \div fr))
                                   ELSE AssetPath(0)

\* duration 3, frame rate 24, alarm 5: 192 paths, 0:03 first, the alarm from 73 on
C4_Witness ==
    /\ pc = "load_done"
    /\ call.duration = 3 /\ call.frame_rate = 24 /\ call.alarm_duration = 5
    /\ Len(frame_files) = 192
    /\ frame_files[1] = PathJoin(FramesFolder,
            <<"f", "r", "a", "m", "e", "_", "0", "0", "0", "3", ".", "p", "n", "g">>)
    /\ frame_files[72] = PathJoin(FramesFolder,
            <<"f", "r", "a", "m", "e", "_", "0", "0", "0", "1", ".", "p", "n", "g">>)
    /\ frame_files[73] = PathJoin(FramesFolder, AlarmFrameName)

\* a step that is the second of two calls in a row for the same duration
SecondCallSameDuration ==
    /\ call.n >= 1
    /\ call'.n = call.n + 1
    /\ call'.duration = call.duration

\* C5 as stated: the second of two calls in a row for the same duration returns the
\* same path list and renders no asset whose file is present.
C5_AsStated ==
    [][SecondCallSameDuration =>
          /\ frame_files' = frame_files
          /\ \A p \in Range(call'.rendered) : p \notin frames]_vars

\* C5, amended: the second of two calls in a row for the same duration returns the
\* same path list, and when it is made without a background video it renders no
\* asset whose file is present.
C5_IdempotentWithoutVideo ==
    [][SecondCallSameDuration =>
          /\ frame_files' = frame_files
          /\ ~call'.background_video =>
                \A p \in Range(call'.rendered) : p \notin frames]_vars

\* two calls for 3 seconds: the first rendered assets, the second none
C5_Witness ==
    /\ call.n = 2
    /\ call.duration = 3 /\ prev_call.duration = 3
    /\ ~call.background_video
    /\ Len(prev_call.rendered) > 0
    /\ call.rendered = <<>>
    /\ Len(frame_files) = 3 * DefaultFrameRate + DefaultAlarmDuration * DefaultFrameRate
    /\ \A s \in 0..3 : AssetPath(s) \in frames


-----------------------------------------------------------------------------
(* Properties of prepare_audio *)

\* C10: the track built by prepare_audio is (duration + alarmDuration) * 1000 ms long:
\* the background part duration*1000 ms and the alarm part alarmDuration*1000 ms,
\* for silence and for every sound file of at least 1 ms, trimmed or looped.
C10_AudioLength ==
    pc = "audio_done" =>
        /\ audio.bg_segment = audio_args.duration * 1000
        /\ audio.alarm = audio_args.alarm_duration * 1000
        /\ audio.combined_audio = (audio_args.duration + audio_args.alarm_duration) * 1000

\* 3 s of a 999 ms music file and 2 s of a 501 ms alarm file: both looped, then cut
C10_Witness ==
    /\ pc = "audio_done"
    /\ audio_args = [duration |-> 3, alarm_duration |-> 2,
                     alarm_sound |-> "bell.wav", alarm_file_ms |-> 501,
                     background_music |-> "music.mp3", music_ms |-> 999]
    /\ audio.combined_audio = 5000

-----------------------------------------------------------------------------
(* Properties of the whole program *)

ErrorLine(msg) == [level |-> "error", msg |-> msg]

\* C3: when the expression compiles to an empty list, the driver reports an input
\* error and exits with a non-zero status, without a call of generate_timer_video,
\* without concatenating and without deleting a file.
C3_EmptyListAborts ==
    (args.has_expression /\ pc # "main" /\ timers = <<>>) =>
        /\ pc = "exited"
        /\ exit_status = "1"
        /\ log = <<ErrorLine("no valid timers")>>
        /\ orch = NoOrch
        /\ concat = NoConcat
        /\ removed = {}

\* "abc": no token, exit status 1, the left-over files untouched
C3_Witness ==
    /\ expression = <<"a", "b", "c">>
    /\ pc = "exited"
    /\ exit_status = "1"
    /\ DOMAIN fs = {TimerMp4, Timer0mMp4}
    /\ orch.trace = <<>>

\* timer_<N>m.mp4 and timer_<N>m_<R>.mp4
CanonicalName(N) ==
    <<"t", "i", "m", "e", "r", "_">> \o str(N) \o <<"m", ".", "m", "p", "4">>
RepetitionName(N, R) ==
    <<"t", "i", "m", "e", "r", "_">> \o str(N) \o <<"m", "_">> \o str(R)
    \o <<".", "m", "p", "4">>

\* C6: when generate_timer_video is asked for timer_<N>m_<R>.mp4, timer_<N>m.mp4
\* exists and the copy succeeds, the requested path then holds a copy of that file
\* and the call returns without entering any later state: the frames and the sounds
\* folder are as before, and the call takes no further step.
C6_ReuseSkipsRender ==
    [][/\ \A N \in 0..9, R \in 2..9 :
            (/\ pc = "check_reuse"
             /\ orch.output_video = RepetitionName(N, R)
             /\ CanonicalName(N) \in DOMAIN fs
             /\ ~orch'.copy_failed)
            => /\ pc' = "returned"
               /\ RepetitionName(N, R) \in DOMAIN fs'
               /\ fs'[RepetitionName(N, R)] = fs[CanonicalName(N)]
               /\ orch'.trace = <<"CheckReuse">>
               /\ frames' = frames
               /\ sounds' = sounds
       /\ (pc = "returned" /\ orch.reused) =>
            /\ orch.trace = <<"CheckReuse">>
            /\ orch' = orch \/ orch'.trace = <<>>
            /\ frames' = frames
            /\ sounds' = sounds]_vars

\* timer_0m_2.mp4 was copied from the timer_0m.mp4 rendered just before
C6_Witness ==
    /\ pc = "returned"
    /\ orch.reused
    /\ orch.output_video = Timer0m2Mp4
    /\ orch.trace = <<"CheckReuse">>
    /\ fs[Timer0m2Mp4] = fs[Timer0mMp4]
    /\ fs[Timer0mMp4].made = "render"
    /\ ~sounds.exists

\* C7 as stated: no call of generate_timer_video ends after a failure in
\* PrepareFrames, PrepareAudio, Compose or Encode with the sounds folder it created
\* still present.
C7_AsStated ==
    (/\ pc \in {"except", "exited"}
     /\ orch.failed \in {"PrepareFrames", "PrepareAudio", "Compose", "Encode"}
     /\ orch.made_sounds)
    => ~sounds.exists

SegmentFiles(ts) == {ts[i][2] : i \in 1..Len(ts)}

\* C8 as stated: a segment file is deleted only after the concatenation has
\* succeeded, and a run that ends after a successful concatenation has deleted
\* every segment file.
C8_AsStated ==
    [][/\ \A f \in SegmentFiles(timers) :
            (f \in DOMAIN fs /\ f \notin DOMAIN fs') => concat.result = "ok"
       /\ (pc' = "exited" /\ concat.result = "ok") =>
            \A f \in SegmentFiles(timers) : f \notin DOMAIN fs']_vars

\* C9 as stated: in expression mode an error raised during segment generation or
\* concatenation is logged and the process exits with a non-zero status.
C9_AsStated ==
    (/\ pc = "exited"
     /\ args.has_expression
     /\ orch.failed # "none" \/ concat.result = "failed")
    => /\ log # <<>> /\ log[Len(log)] = ErrorLine("error generating video")
       /\ exit_status # "0"

-----------------------------------------------------------------------------
(* Properties of generate_timer_video *)

IsPrefix(a, b) == Len(a) <= Len(b) /\ a = SubSeq(b, 1, Len(a))

\* C11 as stated: on a reuse miss the states are entered in the order
\* PrepareFrames, PrepareAudio, Compose, Encode, Cleanup.
C11_AsStated ==
    IsPrefix(orch.trace, <<"CheckReuse", "PrepareFrames", "PrepareAudio", "Compose",
                           "Encode", "Cleanup">>)

\* C11: on a reuse miss the states are entered one after the other in the order
\* PrepareFrames, Compose, PrepareAudio, Encode, Cleanup (the visual track is
\* composed before the audio is prepared), and a call that returns after a miss
\* has gone through all of them.
C11_StateOrder ==
    LET order == <<"CheckReuse", "PrepareFrames", "Compose", "PrepareAudio", "Encode",
                   "Cleanup">>
    IN  /\ IsPrefix(orch.trace, order)
        /\ (pc = "returned" /\ ~orch.reused) => orch.trace = order

\* a full render has returned
C11_Witness ==
    /\ pc = "returned"
    /\ ~orch.reused
    /\ orch.trace = <<"CheckReuse", "PrepareFrames", "Compose", "PrepareAudio",
                      "Encode", "Cleanup">>
    /\ orch.output_video \in DOMAIN fs

\* the three conditions of a hit for the requested name `out`, for the minute value N
ReuseConditions(out, N, files) ==
    /\ out = CanonicalName(N) \/ \E R \in 0..9 : out = RepetitionName(N, R)
    /\ CanonicalName(N) \in files
    /\ out # CanonicalName(N)

\* C12: reuse_video reports a hit only when the requested base name matches
\* timer_<N>m or timer_<N>m_<digits>, timer_<N>m with the same extension exists and
\* the requested path is not that file; in every other case, the request for the
\* existing canonical path included, no file is changed by reuse_video and the call
\* goes on to the full render, so that a call that returns without a hit has
\* rendered the requested file.
C12_HitOnlyWhenReusable ==
    [][/\ pc = "check_reuse" =>
            LET out == orch.output_video
                reusable == \E N \in 0..9 : ReuseConditions(out, N, DOMAIN fs)
            IN  /\ orch'.reused => reusable
                /\ orch'.reused => /\ pc' = "returned"
                                   /\ \E N \in 0..9 : fs'[out] = fs[CanonicalName(N)]
                /\ ~reusable => /\ ~orch'.reused
                                /\ fs' = fs
                                /\ pc' = "setup"
       /\ (pc' = "returned" /\ ~orch'.reused) =>
            /\ "Encode" \in Range(orch'.trace)
            /\ fs'[orch'.output_video].made = "render"]_vars

\* timer_0m.mp4 is requested while a file of that name exists: no hit, the file as
\* it was, and the render path entered
C12_Witness ==
    /\ pc = "setup"
    /\ orch.output_video = Timer0mMp4
    /\ Timer0mMp4 \in DOMAIN fs
    /\ fs[Timer0mMp4].made = "earlier"
    /\ ~orch.reused
    /\ orch.trace = <<"CheckReuse">>

\* C13: when timer_<N>m.mp4 exists and copying it to the requested path fails,
\* reuse_video logs the failure and the call goes on to the full render instead of
\* ending; the requested file is not written by the failed copy, and a run that
\* ends in the exception handler after a failed copy does so because a later state
\* failed.
C13_CopyFailureFallsBack ==
    [][/\ (pc = "check_reuse" /\ orch'.copy_failed) =>
            /\ pc' = "setup"
            /\ ~orch'.reused
            /\ log' = Append(log, ErrorLine("failed to copy video"))
            /\ fs' = fs
            /\ exit_status' = exit_status
       /\ (/\ orch.copy_failed
           /\ pc \in {"setup", "prepare_frames", "compose", "prepare_audio", "encode"}
           /\ pc' = "except") => orch'.failed # "none"
       /\ (orch.copy_failed /\ pc = "cleanup") =>
            /\ pc' = "returned"
            /\ orch'.trace = <<"CheckReuse", "PrepareFrames", "Compose", "PrepareAudio",
                               "Encode", "Cleanup">>
            /\ fs'[orch'.output_video].made = "render"]_vars

\* the copy of timer_0m.mp4 to timer_0m_2.mp4 failed and the segment was rendered
C13_Witness ==
    /\ pc = "returned"
    /\ orch.copy_failed
    /\ orch.output_video = Timer0m2Mp4
    /\ "Cleanup" \in Range(orch.trace)
    /\ fs[Timer0m2Mp4].made = "render"
    /\ \E i \in 1..Len(log) : log[i] = ErrorLine("failed to copy video")

-----------------------------------------------------------------------------
(* Properties of the frame cache *)

\* the keys one call has to render, given the assets present before it
KeysToRender(duration, background_video, present) ==
    {s \in 1..duration : background_video \/ AssetPath(s) \notin present}
    \cup (IF AssetPath(0) \in present THEN {} ELSE {0})

\* C14: one call of check_or_generate_frames renders, each once, exactly the assets
\* of: without a background video the keys 1..duration whose file is absent, with
\* one every key 1..duration; and in both cases the alarm key when its file is
\* absent. No key above duration is rendered, and an existing alarm asset is not
\* rendered again.
C14_RenderedAssets ==
    [][call'.n = call.n + 1 =>
          LET keys == KeysToRender(call'.duration, call'.background_video, frames)
          IN  /\ Range(call'.rendered) = {AssetPath(s) : s \in keys}
              /\ Len(call'.rendered) = Cardinality(keys)
              /\ \A s \in 0..(MaxDuration + 1) :
                    (s > call'.duration \/ (s = 0 /\ AssetPath(0) \in frames))
                    => AssetPath(s) \notin Range(call'.rendered)
              /\ frames' = frames \cup Range(call'.rendered)]_vars

\* a first call for 2 seconds with a background video on a folder that held the
\* alarm asset and the asset of second 3: seconds 2 and 1 rendered, nothing else
C14_Witness ==
    /\ call.n = 1
    /\ call.background_video
    /\ call.duration = 2
    /\ call.rendered = <<AssetPath(2), AssetPath(1)>>
    /\ AssetPath(3) \in frames
    /\ AssetPath(0) \in frames

C16_AsStated ==
    (pc = "returned" /\ orch.reused) =>
        fs[orch.output_video].duration = orch.duration

\* the files a call of generate_timer_video writes into the sounds folder
WrittenSounds == {"alarm_sound.wav", "final_audio_with_alarm.wav"}

\* C17 as stated: a file of the sounds folder that the running call of
\* generate_timer_video did not write is still there after every step, Cleanup
\* included.
C17_AsStated ==
    [][\A f \in sounds.files \ WrittenSounds : f \in sounds'.files]_vars

\* keys around the first second, the first minute, ten minutes and 100 minutes
ProbeKeys == {0, 1, 9, 10, 59, 60, 61, 599, 600, 601, 5999, 6000, 6001, 6059, 6060}

\* C18: after a call of check_or_generate_frames every path that load_frame_paths
\* lists for the same duration and folder is a file of the frames folder, whatever
\* was in the folder before; and for a key, the alarm key and keys of 100 minutes
\* and more included, the name whose existence is checked, the name the renderer
\* writes and the name that is listed are one name.
C18_ListedFramesExist ==
    /\ call.n >= 1 => \A i \in 1..Len(frame_files) : frame_files[i] \in frames
    /\ \A s \in ProbeKeys \cup 0..MaxDuration :
          /\ generate_frame(s, FramesFolder, s = 0)
                = PathJoin(FramesFolder, CheckedFrameName(s))
          /\ s >= 1 => ListedFramePath(s, FramesFolder)
                          = generate_frame(s, FramesFolder, FALSE)
    /\ generate_frame(0, FramesFolder, TRUE)
          = load_frame_paths(0, FramesFolder, 1, 1)[1]

\* a first call for 3 seconds on an empty folder: four assets rendered, and the
\* 192 listed paths all name files of the folder
C18_Witness ==
    /\ call.n = 1
    /\ call.duration = 3
    /\ Len(call.rendered) = 4
    /\ Cardinality(frames) = 4
    /\ Len(frame_files) = 192
    /\ \A i \in 1..192 : frame_files[i] \in frames

-----------------------------------------------------------------------------
(* Properties of an expression-mode run *)

\* C19: in an expression-mode run the first occurrence of a minute value M is
\* requested as timer_<M>m.mp4 and is fully rendered, also when a file of that name
\* was left by an earlier run; every later occurrence is, unless the copy fails,
\* produced by copying timer_<M>m.mp4, which at that moment is the file rendered in
\* this run for M minutes; and when the segments are merged every segment file is
\* a video rendered in this run for its duration.
C19_OneRenderPerMinuteValue ==
    [][/\ (args.has_expression /\ pc = "check_reuse" /\ ~orch'.copy_failed) =>
            LET M == timers[seg][1]
                out == orch.output_video
            IN  IF Occurrence(timers, seg) = 1
                THEN /\ out = CanonicalName(M)
                     /\ ~orch'.reused
                     /\ pc' = "setup"
                     /\ fs' = fs
                ELSE /\ out = RepetitionName(M, Occurrence(timers, seg))
                     /\ orch'.reused
                     /\ pc' = "returned"
                     /\ fs[CanonicalName(M)] = Video(M * 60, fs[CanonicalName(M)].nframes,
                                                     fs[CanonicalName(M)].audio_ms, "render")
                     /\ fs'[out] = fs[CanonicalName(M)]
       /\ (args.has_expression /\ pc = "encode" /\ pc' = "cleanup") =>
            (Occurrence(timers, seg) = 1 \/ orch.copy_failed)
       /\ (args.has_expression /\ pc' = "merge") =>
            \A i \in 1..Len(timers) :
                /\ timers[i][2] \in DOMAIN fs'
                /\ fs'[timers[i][2]].made = "render"
                /\ fs'[timers[i][2]].duration = timers[i][1] * 60]_vars

\* m0x2m1 with a left-over timer_0m.mp4: the first segment was rendered over it
\* (the copy onto itself was refused), the second is a copy of that render
C19_Witness ==
    /\ args.has_expression
    /\ pc = "returned"
    /\ seg = 2
    /\ Len(timers) = 3
    /\ orch.reused
    /\ log[1] = ErrorLine("failed to copy video")
    /\ fs[Timer0mMp4].made = "render"
    /\ fs[Timer0m2Mp4] = fs[Timer0mMp4]

\* C20 as stated: when merge_videos starts the concatenation every file of its list
\* exists, and a run that ends after a successful concatenation leaves the final
\* output file.
C20_AsStated ==
    /\ pc = "concat" => \A i \in 1..Len(concat.list) : concat.list[i] \in DOMAIN fs
    /\ (pc = "exited" /\ concat.result = "ok" /\ exit_status = "0" /\ log # <<>>
        /\ log[Len(log)] = [level |-> "info", msg |-> "generated video"])
       => args.outputfile \in DOMAIN fs

====
